---- MODULE Spec2Model ----
(***************************************************************************)
(* mio-byte-fifo: a non-blocking single-producer/single-consumer byte      *)
(* FIFO (src/src/lib.rs).  A Producer and a Consumer share a ring buffer   *)
(* (crate rb), one AtomicBool `cls` and two mio Registration/SetReadiness  *)
(* pairs.  Every access to shared memory made by write, read and drop is   *)
(* one step of the model, so that the two threads interleave between the   *)
(* flag load, the is_empty/is_full snapshot, the ring operation and the    *)
(* set_readiness call exactly as the code allows.                          *)
(***************************************************************************)
EXTENDS Integers, Sequences, FiniteSets, TLC

\* ------------------------------------------------------------- bounds
\* Largest ring capacity tried (create(capacity)).
MaxCap == 2
\* Number of bytes the producer's caller has to send in a run.
MaxStream == 3
\* Largest slice handed to one write call.
MaxChunk == 2
\* Largest buffer handed to one read call.
MaxBuf == 2

VARIABLES
    cap,     \* capacity of the ring (rb::SpscRb::new(capacity))
    ring,    \* content of the ring, oldest byte first
    cls,     \* the shared AtomicBool: TRUE = nobody was dropped yet
    regp,    \* Producer.reg: the registration the Consumer raises (srp)
    regc,    \* Consumer.reg: the registration the Producer raises (src)
    ppc,     \* position of the producer thread
    pbuf,    \* slice passed to the write in flight
    pempty,  \* `empty` snapshot of the write in flight
    pnum,    \* count returned by the last successful write
    pres,    \* result of the last completed write
    cpc,     \* position of the consumer thread
    cbuf,    \* buffer passed to the read in flight / filled by the last read
    cfull,   \* `full` snapshot of the read in flight
    cnum,    \* count returned by the last successful read
    cres,    \* result of the last completed read
    wrote,   \* history: every byte accepted by a write, in order
    got      \* history: every byte returned by a read, in order

vars == <<cap, ring, cls, regp, regc, ppc, pbuf, pempty, pnum, pres,
          cpc, cbuf, cfull, cnum, cres, wrote, got>>

pvars == <<ppc, pbuf, pempty, pnum, pres>>
cvars == <<cpc, cbuf, cfull, cnum, cres>>

Min(a, b) == IF a < b THEN a ELSE b

\* ------------------------------------------------------------- mio
\* Ready::readable(), Ready::writable(), Ready::all() and the empty set.
Readable == {"r"}
Writable == {"w"}
ReadyAll == {"r", "w"}

\* Registration::new2(): not registered with a poll, no readiness, not queued.
NewRegistration ==
    [interest |-> {}, token |-> "none", readiness |-> {}, queued |-> FALSE,
     dropped |-> FALSE]

\* SetReadiness::set_readiness(ready): a no-op on a dropped registration;
\* otherwise the readiness is replaced and the node is queued for the poll when
\* readiness and interest meet (raises made while queued coalesce).
SetReadiness(reg, ready) ==
    IF reg.dropped THEN reg
    ELSE [reg EXCEPT !.readiness = ready,
                     !.queued = reg.queued \/ (ready \cap reg.interest # {})]

\* Mutant of SetReadinessResult: raising a dropped registration is an error.
SetReadinessFailsOnDropped(reg) == IF reg.dropped THEN "Err" ELSE "Ok"
\* What set_readiness returns: Ok(()), also when the registration is dropped.
SetReadinessResult(reg) == "Ok"

\* The token each thread registers its half with, on its own Poll.
ProducerToken == "Token(0)"
ConsumerToken == "Token(0)"

\* poll.register(&self.reg, token, interest, PollOpt::edge()): readiness raised
\* before the registration is queued at once.
Register(reg, token, interest) ==
    [reg EXCEPT !.interest = interest,
                !.token = token,
                !.queued = reg.queued \/ (reg.readiness \cap interest # {})]

\* An event is waiting to be returned by poll.poll.
Pending(reg) == reg.queued /\ (reg.readiness \cap reg.interest # {})

\* The event poll.poll returns for the registration: the token it was
\* registered with and the readiness that meets its interest.
Event(reg) == [token |-> reg.token, readiness |-> reg.readiness \cap reg.interest]

\* poll.poll returns the event (edge-triggered: the node leaves the queue and
\* is queued again only by the next set_readiness).
Deliver(reg) == [reg EXCEPT !.queued = FALSE]

\* The Registration field is dropped with its owner.
DropRegistration(reg) == [reg EXCEPT !.dropped = TRUE, !.queued = FALSE]

\* ------------------------------------------------------------- ring (crate rb)
\* rb.is_empty() / rb.is_full()
IsEmpty(r) == Len(r) = 0
IsFull(r, c) == Len(r) = c

\* rbp.write(buf): Ok(0) for an empty slice, Err(Full) on a full ring,
\* otherwise Ok(min(len, free)) with that prefix of buf appended.
\* The one error rbp.write returns / the one error rbc.read returns.
RbWriteError == "Full"
RbReadError == "Empty"
RbWriteFull(r, c, buf) == Len(buf) > 0 /\ IsFull(r, c)
\* Mutant of RbWriteReady: the write waits for a free slot, as
\* RbProducer::write_blocking does.
RbWriteWaits(r, c, buf) == ~RbWriteFull(r, c, buf)
\* When rbp.write can take its step: always, it is the try-once write that
\* answers Err(Full) and never waits for the reader.
RbWriteReady(r, c, buf) == TRUE
\* Mutant of RbWriteNum: the write takes one byte more than the free slots.
RbWriteNumOneOver(r, c, buf) == Min(Len(buf), c - Len(r) + 1)
\* Mutant of RbWriteNum: the free space is not looked at, the whole slice goes in.
RbWriteNumUnbounded(r, c, buf) == Len(buf)
RbWriteNum(r, c, buf) == Min(Len(buf), c - Len(r))
RbWriteRing(r, c, buf) == r \o SubSeq(buf, 1, RbWriteNum(r, c, buf))

\* rbc.read(buf): Ok(0) for an empty buffer, Err(Empty) on an empty ring,
\* otherwise Ok(min(len, count)) with the oldest bytes moved to buf[0..n].
RbReadEmpty(r, buf) == Len(buf) > 0 /\ IsEmpty(r)
\* When rbc.read can take its step: always, it is the try-once read that
\* answers Err(Empty) and never waits for the writer.
RbReadReady(r, buf) == TRUE
\* Mutant of RbReadNum: a read takes at most one byte.
RbReadNumOneByte(r, buf) == Min(Min(Len(buf), Len(r)), 1)
RbReadNum(r, buf) == Min(Len(buf), Len(r))
\* Mutant of RbReadBuf: the bytes of buf past the count are zeroed.
RbReadBufClearsTail(r, buf) ==
    [i \in 1..Len(buf) |-> IF i <= RbReadNum(r, buf) THEN r[i] ELSE 0]
RbReadBuf(r, buf) ==
    [i \in 1..Len(buf) |-> IF i <= RbReadNum(r, buf) THEN r[i] ELSE buf[i]]
\* Mutant of RbReadRing: the read leaves the last byte it returned in the ring.
RbReadRingKeepsLast(r, buf) ==
    IF RbReadNum(r, buf) = 0 THEN r ELSE SubSeq(r, RbReadNum(r, buf), Len(r))
RbReadRing(r, buf) == SubSeq(r, RbReadNum(r, buf) + 1, Len(r))

\* ------------------------------------------------------------- callers' data
\* The bytes the producer's caller wants to send: byte i has value i, so that
\* loss, duplication and reordering all show.
Stream == [i \in 1..MaxStream |-> i]
\* The slice a caller passes to write: the next n unsent bytes (&data[pos..]).
NextSlice(n) == SubSeq(Stream, Len(wrote) + 1, Len(wrote) + n)
\* A zeroed read buffer of k bytes ([0; k]).
ZeroBuf(k) == [i \in 1..k |-> 0]
\* The slice a caller passes to read: the first k bytes of the one array it
\* declared zeroed and reuses (&mut buf[0..k]), holding what old reads left.
ReuseBuf(old, k) == [i \in 1..k |-> IF i <= Len(old) THEN old[i] ELSE 0]

\* ------------------------------------------------------------- create
Create(capacity) ==
    /\ cap = capacity
    /\ ring = <<>>
    /\ cls = TRUE
    /\ regp = NewRegistration
    /\ regc = NewRegistration
    /\ ppc = "idle" /\ pbuf = <<>> /\ pempty = FALSE /\ pnum = 0 /\ pres = "None"
    /\ cpc = "idle" /\ cbuf = <<>> /\ cfull = FALSE /\ cnum = 0 /\ cres = "None"
    /\ wrote = <<>>
    /\ got = <<>>

\* A channel made with a positive capacity, as every caller in the crate's
\* tests and examples makes it.
Init == \E capacity \in 1..MaxCap : Create(capacity)

\* A channel made with any capacity a caller can pass, 0 included: create
\* hands its argument to SpscRb::new without looking at it.
CreateAny == \E capacity \in 0..MaxCap : Create(capacity)

\* The handle is owned by a running caller (not parked in poll, not dropped,
\* not inside a call).
ProducerFree == ppc \in {"idle", "woken"}
ConsumerFree == cpc \in {"idle", "woken"}
ProducerAlive == ppc \notin {"d_raise", "dropped"}
ConsumerAlive == cpc \notin {"d_raise", "dropped"}

\* ------------------------------------------------------------- Producer::write
\* Mutant of WriteClosed: write never looks at the flag.
WriteClosedNever(flag) == FALSE
\* Mutant of WriteClosed: every write reports the Consumer closed.
WriteClosedAlways(flag) == TRUE
\* Whether write gives up at once, from the flag it loads.
WriteClosed(flag) == ~flag

\* Mutant of WriteFullError: a full ring is reported as a closed peer.
WriteFullErrorBrokenPipe == "BrokenPipe"
\* The error kind of a write refused by the ring (RbError::Full).
WriteFullError == "WouldBlock"

\* write(buf): `if !self.cls.load(SeqCst) { return Err(BrokenPipe) }`
WriteLoad(n) ==
    /\ ProducerFree
    /\ Len(wrote) + n <= MaxStream
    /\ IF WriteClosed(cls)
       THEN /\ ppc' = "idle"
            /\ pres' = "BrokenPipe"
            /\ UNCHANGED <<pbuf, pempty, pnum>>
       ELSE /\ ppc' = "w_snap"
            /\ pbuf' = NextSlice(n)
            /\ UNCHANGED <<pempty, pnum, pres>>
    /\ UNCHANGED <<cap, ring, cls, regp, regc, cvars, wrote, got>>

\* `let empty = self.rb.is_empty();`
WriteSnap ==
    /\ ppc = "w_snap"
    /\ pempty' = IsEmpty(ring)
    /\ ppc' = "w_ring"
    /\ UNCHANGED <<cap, ring, cls, regp, regc, pbuf, pnum, pres, cvars, wrote, got>>

\* Mutant of WriteRaises: the snapshot is ignored, every accepting write raises.
WriteRaisesAlways(num, empty) == num > 0
\* Mutant of WriteRaises: the test of the snapshot is inverted.
WriteRaisesInverted(num, empty) == num > 0 /\ ~empty
\* Whether write raises after rbp.write returned Ok(num).
WriteRaises(num, empty) == num > 0 /\ empty

\* `match self.rbp.write(buf)`
WriteRing ==
    /\ ppc = "w_ring"
    /\ RbWriteReady(ring, cap, pbuf)
    /\ IF RbWriteFull(ring, cap, pbuf)
       THEN /\ ppc' = IF RbWriteError = "Full" THEN "idle" ELSE "panic"
            /\ pres' = IF RbWriteError = "Full" THEN WriteFullError ELSE pres
            /\ pempty' = FALSE
            /\ pbuf' = <<>>
            /\ UNCHANGED <<ring, wrote, pnum>>
       ELSE /\ ring' = RbWriteRing(ring, cap, pbuf)
            /\ wrote' = wrote \o SubSeq(pbuf, 1, RbWriteNum(ring, cap, pbuf))
            /\ pnum' = RbWriteNum(ring, cap, pbuf)
            /\ IF WriteRaises(RbWriteNum(ring, cap, pbuf), pempty)
               THEN /\ ppc' = "w_raise"
                    /\ UNCHANGED <<pres, pempty, pbuf>>
               ELSE /\ ppc' = "idle"
                    /\ pres' = "Ok"
                    /\ pempty' = FALSE
                    /\ pbuf' = <<>>
    /\ UNCHANGED <<cap, cls, regp, regc, cvars, got>>

\* The readiness a write raises: `Ready::readable()`.
WriteRaiseReadiness == Readable

\* `self.src.set_readiness(Ready::readable()); fence(SeqCst);` then Ok(num)
WriteRaise ==
    /\ ppc = "w_raise"
    /\ regc' = SetReadiness(regc, WriteRaiseReadiness)
    /\ ppc' = "idle"
    /\ pres' = IF SetReadinessResult(regc) = "Ok" THEN "Ok" ELSE "Other"
    /\ pempty' = FALSE
    /\ pbuf' = <<>>
    /\ UNCHANGED <<cap, ring, cls, regp, pnum, cvars, wrote, got>>

\* ------------------------------------------------------------- Consumer::read
\* read(buf): `let full = self.rb.is_full();`
ReadSnap(k) ==
    /\ ConsumerFree
    /\ cfull' = IsFull(ring, cap)
    /\ cbuf' = ReuseBuf(cbuf, k)
    /\ cpc' = "r_ring"
    /\ UNCHANGED <<cap, ring, cls, regp, regc, pvars, cnum, cres, wrote, got>>

\* Mutant of ReadRaises: the snapshot is ignored, every draining read raises.
ReadRaisesAlways(num, full) == num > 0
\* Whether read raises after rbc.read returned Ok(num).
ReadRaises(num, full) == num > 0 /\ full

\* `match self.rbc.read(buf)`
ReadRing ==
    /\ cpc = "r_ring"
    /\ RbReadReady(ring, cbuf)
    /\ IF RbReadEmpty(ring, cbuf)
       THEN /\ cpc' = IF RbReadError = "Empty" THEN "r_load" ELSE "panic"
            /\ UNCHANGED <<ring, got, cbuf, cnum, cres, cfull>>
       ELSE /\ ring' = RbReadRing(ring, cbuf)
            /\ cbuf' = RbReadBuf(ring, cbuf)
            /\ got' = got \o SubSeq(RbReadBuf(ring, cbuf), 1, RbReadNum(ring, cbuf))
            /\ cnum' = RbReadNum(ring, cbuf)
            /\ IF ReadRaises(RbReadNum(ring, cbuf), cfull)
               THEN /\ cpc' = "r_raise"
                    /\ UNCHANGED <<cres, cfull>>
               ELSE /\ cpc' = "idle"
                    /\ cres' = "Ok"
                    /\ cfull' = FALSE
    /\ UNCHANGED <<cap, cls, regp, regc, pvars, wrote>>

\* Mutant of ReadRaiseReadiness: the read raises `Ready::readable()`.
ReadRaiseReadinessReadable == Readable
\* The readiness a read raises: `Ready::writable()`.
ReadRaiseReadiness == Writable

\* `self.srp.set_readiness(Ready::writable()); fence(SeqCst);` then Ok(num)
ReadRaise ==
    /\ cpc = "r_raise"
    /\ regp' = SetReadiness(regp, ReadRaiseReadiness)
    /\ cpc' = "idle"
    /\ cres' = IF SetReadinessResult(regp) = "Ok" THEN "Ok" ELSE "Other"
    /\ cfull' = FALSE
    /\ UNCHANGED <<cap, ring, cls, regc, pvars, cbuf, cnum, wrote, got>>

\* Mutant of ReadError: the test of the flag is inverted.
ReadErrorInverted(flag) == IF flag THEN "BrokenPipe" ELSE "WouldBlock"
\* The error of a read that found the ring empty, from the flag it loads.
ReadError(flag) == IF ~flag THEN "BrokenPipe" ELSE "WouldBlock"

\* RbError::Empty => `if !self.cls.load(SeqCst)` BrokenPipe else WouldBlock
ReadLoad ==
    /\ cpc = "r_load"
    /\ cres' = ReadError(cls)
    /\ cpc' = "idle"
    /\ cfull' = FALSE
    /\ UNCHANGED <<cap, ring, cls, regp, regc, pvars, cbuf, cnum, wrote, got>>

\* ------------------------------------------------------------- Drop
\* Mutants of ProducerDropReadiness / ConsumerDropReadiness: the drop sets no
\* readiness (Ready::empty()).
ProducerDropReadinessEmpty == {}
ConsumerDropReadinessEmpty == {}
\* The readiness each drop raises on the peer's registration (Ready::all()).
ProducerDropReadiness == ReadyAll
ConsumerDropReadiness == ReadyAll

\* Mutant of DropStoreValue: the drop flips the flag.
DropStoreToggles(flag) == ~flag
\* The value a drop stores in the flag: `self.cls.store(false, SeqCst)`.
DropStoreValue(flag) == FALSE

\* Drop for Producer: `self.cls.store(false, SeqCst);`
ProducerDropStore ==
    /\ ProducerFree
    /\ cls' = DropStoreValue(cls)
    /\ ppc' = "d_raise"
    /\ UNCHANGED <<cap, ring, regp, regc, pbuf, pempty, pnum, pres, cvars, wrote, got>>

\* `self.src.set_readiness(Ready::all()).unwrap(); fence(SeqCst);` and the
\* fields (reg among them) are dropped; an Err makes the unwrap panic.
ProducerDropRaise ==
    /\ ppc = "d_raise"
    /\ regc' = SetReadiness(regc, ProducerDropReadiness)
    /\ regp' = DropRegistration(regp)
    /\ ppc' = IF SetReadinessResult(regc) = "Ok" THEN "dropped" ELSE "panic"
    /\ UNCHANGED <<cap, ring, cls, pbuf, pempty, pnum, pres, cvars, wrote, got>>

\* Drop for Consumer: `self.cls.store(false, SeqCst);`
ConsumerDropStore ==
    /\ ConsumerFree
    /\ cls' = DropStoreValue(cls)
    /\ cpc' = "d_raise"
    /\ UNCHANGED <<cap, ring, regp, regc, pvars, cbuf, cfull, cnum, cres, wrote, got>>

\* `self.srp.set_readiness(Ready::all()).unwrap(); fence(SeqCst);`
ConsumerDropRaise ==
    /\ cpc = "d_raise"
    /\ regp' = SetReadiness(regp, ConsumerDropReadiness)
    /\ regc' = DropRegistration(regc)
    /\ cpc' = IF SetReadinessResult(regp) = "Ok" THEN "dropped" ELSE "panic"
    /\ UNCHANGED <<cap, ring, cls, pvars, cbuf, cfull, cnum, cres, wrote, got>>

\* ------------------------------------------------------------- Evented, poll
\* Evented for Producer: poll.register(&producer, token, Ready::writable(), edge)
ProducerRegister ==
    /\ ProducerFree
    /\ regp.interest = {}
    /\ regp' = Register(regp, ProducerToken, Writable)
    /\ UNCHANGED <<cap, ring, cls, regc, pvars, cvars, wrote, got>>

\* Evented for Consumer: poll.register(&consumer, token, Ready::readable(), edge)
ConsumerRegister ==
    /\ ConsumerFree
    /\ regc.interest = {}
    /\ regc' = Register(regc, ConsumerToken, Readable)
    /\ UNCHANGED <<cap, ring, cls, regp, pvars, cvars, wrote, got>>

\* The producer's caller got WouldBlock and parks in poll.poll(&mut events, None).
ProducerWait ==
    /\ ppc = "idle"
    /\ pres = "WouldBlock"
    /\ regp.interest # {}
    /\ ppc' = "wait"
    /\ UNCHANGED <<cap, ring, cls, regp, regc, pbuf, pempty, pnum, pres, cvars, wrote, got>>

\* poll.poll returns the producer's event; the caller will call write next.
ProducerWake ==
    /\ ppc = "wait"
    /\ Pending(regp)
    /\ regp' = Deliver(regp)
    /\ ppc' = "woken"
    /\ UNCHANGED <<cap, ring, cls, regc, pbuf, pempty, pnum, pres, cvars, wrote, got>>

\* The consumer's caller got WouldBlock (or has not read yet) and parks in poll.
ConsumerWait ==
    /\ cpc = "idle"
    /\ cres \in {"WouldBlock", "None"}
    /\ regc.interest # {}
    /\ cpc' = "wait"
    /\ UNCHANGED <<cap, ring, cls, regp, regc, pvars, cbuf, cfull, cnum, cres, wrote, got>>

\* poll.poll returns the consumer's event; the caller will call read next.
ConsumerWake ==
    /\ cpc = "wait"
    /\ Pending(regc)
    /\ regc' = Deliver(regc)
    /\ cpc' = "woken"
    /\ UNCHANGED <<cap, ring, cls, regp, pvars, cbuf, cfull, cnum, cres, wrote, got>>

\* ------------------------------------------------------------- specification
ProducerStep ==
    \/ \E n \in 0..MaxChunk : WriteLoad(n)
    \/ WriteSnap
    \/ WriteRing
    \/ WriteRaise
    \/ ProducerDropStore
    \/ ProducerDropRaise
    \/ ProducerRegister
    \/ ProducerWait
    \/ ProducerWake

ConsumerStep ==
    \/ \E k \in 0..MaxBuf : ReadSnap(k)
    \/ ReadRing
    \/ ReadRaise
    \/ ReadLoad
    \/ ConsumerDropStore
    \/ ConsumerDropRaise
    \/ ConsumerRegister
    \/ ConsumerWait
    \/ ConsumerWake

Next == ProducerStep \/ ConsumerStep

Spec == Init /\ [][Next]_vars

\* The steps a caller takes inside a call it has entered.
ProducerInCall == ppc \in {"w_snap", "w_ring", "w_raise", "d_raise"}
ConsumerInCall == cpc \in {"r_ring", "r_load", "r_raise", "d_raise"}
ProducerCallStep == WriteSnap \/ WriteRing \/ WriteRaise \/ ProducerDropRaise
ConsumerCallStep == ReadRing \/ ReadLoad \/ ReadRaise \/ ConsumerDropRaise

\* The most steps a call at this position still has to take.
StepsLeft(pc) ==
    CASE pc = "w_snap" -> 3
      [] pc \in {"w_ring", "r_ring"} -> 2
      [] pc \in {"w_raise", "r_load", "r_raise", "d_raise"} -> 1
      [] OTHER -> 0

\* The program with each thread kept running while it is inside a call; a
\* caller between calls stays free never to call again.
CallFairSpec ==
    /\ Spec
    /\ WF_vars(ProducerCallStep)
    /\ WF_vars(ConsumerCallStep)

\* The program over every capacity create accepts.
CreateSpec == CreateAny /\ [][Next]_vars

\* The same program with the scheduling the runtime guarantees: a drop that
\* has started runs to its end, and poll.poll returns once an event is queued
\* for a caller parked in it.  The callers stay free to stop calling.
FairSpec ==
    /\ Spec
    /\ WF_vars(ProducerDropRaise)
    /\ WF_vars(ConsumerDropRaise)
    /\ WF_vars(ProducerWake)
    /\ WF_vars(ConsumerWake)

\* ------------------------------------------------------------- polling protocol
\* The two threads of the crate documentation's "More complicated example"
\* (and examples/polling.rs), over the same operations.

\* producer thread: poll.register(&producer, Token(0), Ready::writable(), edge)
\* comes first.
PollProducerRegister ==
    /\ pres = "None"
    /\ ProducerRegister

\* write_data_part: `producer.write(&data[*pos..])`, again after Ok while
\* bytes are left, and after each writable event.
PollWrite ==
    /\ regp.interest # {}
    /\ Len(wrote) < MaxStream
    /\ ppc = "woken" \/ (ppc = "idle" /\ pres \in {"None", "Ok"})
    /\ WriteLoad(MaxStream - Len(wrote))

\* The closure returned false (`*pos >= data.len()`): the thread ends and the
\* producer is dropped.
PollProducerExit ==
    /\ Len(wrote) = MaxStream
    /\ pres = "Ok"
    /\ ProducerDropStore

PollProducerStep ==
    \/ PollProducerRegister
    \/ PollWrite
    \/ WriteSnap
    \/ WriteRing
    \/ WriteRaise
    \/ ProducerWait
    \/ ProducerWake
    \/ PollProducerExit
    \/ ProducerDropRaise

\* consumer thread: poll.register(&consumer, Token(0), Ready::readable(), edge)
\* comes first, then poll.poll.
PollConsumerRegister ==
    /\ cres = "None"
    /\ ConsumerRegister

\* read_data_part: `consumer.read(&mut buf)` after each readable event, and
\* again after Ok.
PollRead(k) ==
    /\ cpc = "woken" \/ (cpc = "idle" /\ cres = "Ok")
    /\ ReadSnap(k)

\* The closure returned false (BrokenPipe): the thread ends and the consumer is
\* dropped.
PollConsumerExit ==
    /\ cres = "BrokenPipe"
    /\ ConsumerDropStore

PollConsumerStep ==
    \/ PollConsumerRegister
    \/ ConsumerWait
    \/ ConsumerWake
    \/ \E k \in 1..MaxBuf : PollRead(k)
    \/ ReadRing
    \/ ReadRaise
    \/ ReadLoad
    \/ PollConsumerExit
    \/ ConsumerDropRaise

PollNext == PollProducerStep \/ PollConsumerStep

\* Both threads keep running while they have a step to take.
PollSpec ==
    /\ Init
    /\ [][PollNext]_vars
    /\ WF_vars(PollProducerStep)
    /\ WF_vars(PollConsumerStep)

\* ------------------------------------------------------------- claims
\* C1: FIFO integrity.  In every reachable state the bytes returned by reads
\* so far, followed by the bytes now in the ring, are exactly the bytes
\* accepted by writes so far, in order, and those are a prefix of what the
\* caller sent: nothing is lost, duplicated or reordered.
C1_FifoIntegrity ==
    /\ wrote = got \o ring
    /\ wrote = SubSeq(Stream, 1, Len(wrote))

\* C1 witness: reads have returned some bytes, later bytes fill the ring
\* again, and the last write was refused with WouldBlock (to be retried).
C1_Witness ==
    /\ Len(got) >= 1
    /\ IsFull(ring, cap)
    /\ cres = "Ok"
    /\ pres = "WouldBlock"

\* C2: drain before close.  Whenever a read has returned BrokenPipe
\* ("Producer was closed") the ring is empty and every byte accepted by a write
\* has been returned by an earlier read.
C2_DrainBeforeClose ==
    cres = "BrokenPipe" => (ring = <<>> /\ got = wrote)

\* C3: no lost wakeup for the reader.  Never: the ring holds data, the
\* Producer is alive and outside a write call, the Consumer's last read
\* returned WouldBlock and it is parked in poll, and no event is pending on its
\* registration.
C3_NoLostReaderWakeup ==
    ~ ( /\ ring # <<>>
        /\ ppc \in {"idle", "woken", "wait"}
        /\ cres = "WouldBlock"
        /\ cpc = "wait"
        /\ ~Pending(regc) )

\* C4: no lost wakeup for the writer.  Never: the ring has free space, the
\* Consumer is alive and outside a read call, the Producer's last write
\* returned WouldBlock and it is parked in poll, and no event is pending on its
\* registration.
C4_NoLostWriterWakeup ==
    ~ ( /\ ~IsFull(ring, cap)
        /\ cpc \in {"idle", "woken", "wait"}
        /\ pres = "WouldBlock"
        /\ ppc = "wait"
        /\ ~Pending(regp) )

\* C5: end-to-end delivery under the documented polling protocol.  With weak
\* fairness of both threads the consumer eventually holds the whole message in
\* order, has seen BrokenPipe, and both threads have ended.
C5_EndToEndDelivery ==
    <>( /\ got = Stream
        /\ cres = "BrokenPipe"
        /\ ppc = "dropped"
        /\ cpc = "dropped" )

\* C6: Producer disposal wakes the reader.  The drop's raise comes after the
\* flag store and queues an event on every registered Consumer registration
\* whatever the ring holds; a Consumer parked in poll while the Producer is
\* being dropped is eventually woken; and a read that finds the ring empty
\* once the flag is stored returns BrokenPipe, not WouldBlock.
C6_ProducerDropWakes ==
    /\ [][ProducerDropRaise =>
            /\ ~cls
            /\ (regc.interest # {} /\ ~regc.dropped => Pending(regc'))]_vars
    /\ ((cpc = "wait" /\ ~ProducerAlive) ~> (cpc # "wait"))
    /\ [][(ReadLoad /\ ~ProducerAlive) => cres' = "BrokenPipe"]_vars

\* C6 witness: the Consumer had read WouldBlock and parked, the Producer was
\* dropped without ever writing a byte, and the Consumer's next read on the
\* empty ring returned BrokenPipe.
C6_Witness ==
    /\ wrote = <<>>
    /\ ppc = "dropped"
    /\ regc.interest # {}
    /\ regc.readiness = ReadyAll
    /\ ~regc.queued
    /\ cpc = "idle"
    /\ cres = "BrokenPipe"

\* C7: Consumer disposal wakes the writer.  The drop's raise comes after the
\* flag store and queues an event on every registered Producer registration
\* whatever the ring holds; a Producer parked in poll while the Consumer is
\* being dropped is eventually woken; and a write called once the flag is
\* stored returns BrokenPipe.
C7_ConsumerDropWakes ==
    /\ [][ConsumerDropRaise =>
            /\ ~cls
            /\ (regp.interest # {} /\ ~regp.dropped => Pending(regp'))]_vars
    /\ ((ppc = "wait" /\ ~ConsumerAlive) ~> (ppc # "wait"))
    /\ [][((\E n \in 0..MaxChunk : WriteLoad(n)) /\ ~ConsumerAlive)
            => pres' = "BrokenPipe"]_vars

\* C7 witness: the ring is full and nothing was ever read, the Producer had
\* got WouldBlock and parked, the Consumer was dropped, the Producer was woken
\* by the drop's event and its next write returned BrokenPipe.
C7_Witness ==
    /\ got = <<>>
    /\ IsFull(ring, cap)
    /\ cpc = "dropped"
    /\ regp.interest # {}
    /\ regp.readiness = ReadyAll
    /\ ~regp.queued
    /\ ppc = "idle"
    /\ pres = "BrokenPipe"

\* C8: write after Consumer disposal.  Every write call made once the
\* Consumer is disposed returns BrokenPipe at once, whatever the ring holds,
\* and changes neither the ring nor the flag nor either registration.
C8_WriteAfterConsumerDrop ==
    [][((\E n \in 0..MaxChunk : WriteLoad(n)) /\ cpc = "dropped") =>
          /\ pres' = "BrokenPipe"
          /\ ppc' = "idle"
          /\ UNCHANGED <<ring, cls, regp, regc, wrote, pnum>>]_vars

\* C8 witness: a write was refused with BrokenPipe although the ring had free
\* space.
C8_Witness ==
    /\ cpc = "dropped"
    /\ pres = "BrokenPipe"
    /\ Len(ring) < cap

\* C9: write on a full ring.  With the Consumer alive, a write of a non-empty
\* slice whose ring operation finds the ring full returns WouldBlock, accepts
\* nothing and leaves the ring, the flag and both registrations as they were;
\* the steps of the call before it change none of them either, and the flag
\* load does not end the call.
C9_WriteOnFullRing ==
    /\ [][(WriteRing /\ ConsumerAlive /\ IsFull(ring, cap) /\ Len(pbuf) > 0) =>
            /\ pres' = "WouldBlock"
            /\ ppc' = "idle"
            /\ UNCHANGED <<ring, cls, regp, regc, wrote, pnum>>]_vars
    /\ [][((\E n \in 0..MaxChunk : WriteLoad(n)) \/ WriteSnap) =>
            UNCHANGED <<ring, cls, regp, regc, wrote, pnum>>]_vars
    /\ [][((\E n \in 0..MaxChunk : WriteLoad(n)) /\ ConsumerAlive) =>
            ppc' = "w_snap"]_vars

\* C9 witness: a write has just returned WouldBlock on a full ring with the
\* Consumer alive.
C9_Witness ==
    /\ pres = "WouldBlock"
    /\ ppc = "idle"
    /\ IsFull(ring, cap)
    /\ ConsumerAlive

\* C10: read on an empty open ring.  With the Producer alive, a read into a
\* non-empty buffer whose ring operation finds the ring empty returns
\* WouldBlock, reads nothing and leaves the ring, the buffer, the flag and both
\* registrations as they were; the snapshot step changes none of them either.
C10_ReadOnEmptyRing ==
    /\ [][(ReadRing /\ IsEmpty(ring) /\ Len(cbuf) > 0) =>
            /\ cpc' = "r_load"
            /\ UNCHANGED <<ring, cls, regp, regc, got, cbuf, cnum>>]_vars
    /\ [][(ReadLoad /\ ProducerAlive) =>
            /\ cres' = "WouldBlock"
            /\ UNCHANGED <<ring, cls, regp, regc, got, cbuf, cnum>>]_vars
    /\ [][(\E k \in 0..MaxBuf : ReadSnap(k)) =>
            UNCHANGED <<ring, cls, regp, regc, got, cnum>>]_vars

\* C10 witness: a read has just returned WouldBlock on an empty ring with the
\* Producer alive, its buffer still zeroed.
C10_Witness ==
    /\ cres = "WouldBlock"
    /\ cpc = "idle"
    /\ IsEmpty(ring)
    /\ ProducerAlive
    /\ Len(cbuf) > 0
    /\ cbuf = ZeroBuf(Len(cbuf))

\* C11: write raises on empty-to-non-empty only, and after the data.  The ring
\* step of a write goes on to the raise exactly when it accepted n > 0 bytes
\* and the snapshot taken before it saw the ring empty; no step of a write
\* before that touches the Consumer's registration, so the raise follows the
\* bytes; and while the Consumer has not read, the writes that follow the first
\* one raise nothing: once the one event is delivered no other is pending.
C11_WriteRaisesOnce ==
    /\ [][WriteRing =>
            ((ppc' = "w_raise") <=>
                (Len(wrote') > Len(wrote) /\ pempty))]_vars
    /\ [][((\E n \in 0..MaxChunk : WriteLoad(n)) \/ WriteSnap \/ WriteRing) =>
            UNCHANGED regc]_vars
    /\ [](ppc = "w_raise" => (pnum > 0 /\ pempty /\ Len(wrote) >= pnum))
    /\ []((cres = "None" /\ cpc = "woken" /\ ppc \notin {"w_raise", "d_raise", "dropped"})
            => ~Pending(regc))

\* C11 witness: two writes were accepted with no read in between (the last
\* one took one byte, into a ring that held one), the Consumer was woken by
\* the one event and nothing else is pending.
C11_Witness ==
    /\ got = <<>>
    /\ cres = "None"
    /\ cpc = "woken"
    /\ Len(wrote) = 2
    /\ pnum = 1
    /\ ppc = "idle"
    /\ pres = "Ok"
    /\ ~Pending(regc)

\* C12: read raises on full-to-non-full only, and after the drain.  The ring
\* step of a read goes on to the raise exactly when it drained n > 0 bytes and
\* the snapshot taken before it saw the ring full; no step of a read before
\* that touches the Producer's registration, so the raise follows the drain;
\* and when the writer has filled the ring once and written nothing since, the
\* reads that follow the first one raise nothing: once the one event is
\* delivered to the writer no other is pending.
C12_ReadRaisesOnce ==
    /\ [][ReadRing =>
            ((cpc' = "r_raise") <=>
                (Len(got') > Len(got) /\ cfull))]_vars
    /\ [][((\E k \in 0..MaxBuf : ReadSnap(k)) \/ ReadRing \/ ReadLoad) =>
            UNCHANGED regp]_vars
    /\ [](cpc = "r_raise" => (cnum > 0 /\ cfull /\ Len(got) >= cnum))
    /\ []((Len(wrote) = cap /\ ppc = "woken" /\ cpc \notin {"r_raise", "d_raise", "dropped"})
            => ~Pending(regp))

\* C12 witness: the writer filled a ring of two bytes, got WouldBlock and
\* parked; two reads of one byte each followed; the writer was woken by the
\* one event and nothing else is pending.
C12_Witness ==
    /\ cap = 2
    /\ Len(wrote) = cap
    /\ Len(got) = 2
    /\ cnum = 1
    /\ cpc = "idle"
    /\ cres = "Ok"
    /\ ppc = "woken"
    /\ ~Pending(regp)

\* C13: partial write.  With the Consumer alive, the ring step of a write of
\* L > 0 bytes into a ring with f > 0 free slots accepts min(L, f): it returns
\* that count and appends exactly the first min(L, f) bytes of the slice after
\* the bytes the ring held, whatever was written and read before.
C13_PartialWrite ==
    [][(WriteRing /\ ConsumerAlive /\ Len(pbuf) > 0 /\ Len(ring) < cap) =>
          /\ pnum' = Min(Len(pbuf), cap - Len(ring))
          /\ ring' = ring \o SubSeq(pbuf, 1, Min(Len(pbuf), cap - Len(ring)))
          /\ wrote' = wrote \o SubSeq(pbuf, 1, Min(Len(pbuf), cap - Len(ring)))
          /\ \/ ppc' = "idle" /\ pres' = "Ok"
             \/ ppc' = "w_raise"]_vars

\* C13 witness: after earlier bytes went through the ring, a write of two
\* bytes found one free slot and accepted only the first of them.
C13_Witness ==
    /\ Len(got) >= 1
    /\ ppc = "w_raise"
    /\ Len(pbuf) = 2
    /\ pnum = 1
    /\ ring = <<pbuf[1]>>
    /\ IsFull(ring, cap)

\* C14: bounded read.  The ring step of a read into a buffer of k > 0 bytes
\* from a ring holding occ > 0 bytes returns n = min(k, occ) <= k, puts the n
\* oldest bytes of the ring into buf[0..n] in order, removes exactly those
\* from the ring and leaves buf[n..] as the caller passed it.
C14_BoundedRead ==
    [][(ReadRing /\ Len(cbuf) > 0 /\ Len(ring) > 0) =>
          /\ cnum' = Min(Len(cbuf), Len(ring))
          /\ cnum' <= Len(cbuf)
          /\ Len(cbuf') = Len(cbuf)
          /\ \A i \in 1..Len(cbuf) :
                cbuf'[i] = IF i <= cnum' THEN ring[i] ELSE cbuf[i]
          /\ ring' = SubSeq(ring, cnum' + 1, Len(ring))
          /\ got' = got \o SubSeq(ring, 1, cnum')
          /\ \/ cpc' = "idle" /\ cres' = "Ok"
             \/ cpc' = "r_raise"]_vars

\* C14 witness: a read into a two-byte buffer that still held bytes of an
\* older read returned one byte and left the second byte of the buffer alone.
C14_Witness ==
    /\ cres = "Ok"
    /\ cpc = "idle"
    /\ Len(cbuf) = 2
    /\ cnum = 1
    /\ Len(got) >= 3
    /\ cbuf[1] = got[Len(got)]
    /\ cbuf[2] # 0

\* C15 (write half): once a write has returned BrokenPipe, every later write
\* on that Producer returns BrokenPipe.
C15_WriteClosedTerminal ==
    [][pres = "BrokenPipe" => pres' = "BrokenPipe"]_vars

\* C15: PeerClosed is terminal.  Once a write has returned BrokenPipe every
\* later write returns BrokenPipe, and once a read has returned BrokenPipe
\* every later read into a non-empty buffer returns BrokenPipe: the result of
\* the last read moves away from BrokenPipe only by a read into an empty
\* buffer.
C15_PeerClosedTerminal ==
    /\ C15_WriteClosedTerminal
    /\ [][(cres = "BrokenPipe" /\ cres' # "BrokenPipe") => Len(cbuf) = 0]_vars

\* C16: round trip on a fresh channel.  The first write on a new channel of
\* capacity cap, of a slice S with 1 <= Len(S) <= cap, accepts and returns
\* Len(S) and the ring then holds S; a read that follows it, the first to
\* take bytes, into a buffer of at least Len(S) bytes returns Len(S), its
\* buffer starts with exactly S, and the ring is left empty.
C16_RoundTrip ==
    /\ [][(WriteRing /\ wrote = <<>> /\ Len(pbuf) >= 1 /\ Len(pbuf) <= cap) =>
             /\ pnum' = Len(pbuf)
             /\ ring' = pbuf
             /\ wrote' = pbuf
             /\ \/ ppc' = "idle" /\ pres' = "Ok"
                \/ ppc' = "w_raise"]_vars
    /\ [][WriteRaise => (ppc' = "idle" /\ pres' = "Ok" /\ pnum' = pnum)]_vars
    /\ [][(ReadRing /\ got = <<>> /\ ppc = "idle" /\ pres = "Ok" /\ pnum >= 1
             /\ Len(wrote) = pnum /\ Len(cbuf) >= pnum) =>
             /\ cnum' = pnum
             /\ SubSeq(cbuf', 1, pnum) = wrote
             /\ got' = wrote
             /\ ring' = <<>>
             /\ \/ cpc' = "idle" /\ cres' = "Ok"
                \/ cpc' = "r_raise"]_vars
    /\ [][ReadRaise => (cpc' = "idle" /\ cres' = "Ok" /\ cnum' = cnum
                          /\ cbuf' = cbuf /\ ring' = ring)]_vars

\* C16 witness: on a channel of capacity 2 one write of two bytes filled the
\* ring and one read into a two-byte buffer returned both, emptying it.
C16_Witness ==
    /\ cap = 2
    /\ pnum = 2 /\ pres = "Ok" /\ ppc = "idle"
    /\ cnum = 2 /\ cres = "Ok" /\ cpc = "idle"
    /\ Len(wrote) = 2
    /\ got = wrote
    /\ cbuf = wrote
    /\ ring = <<>>

\* C17: create rejects an invalid capacity.  create(0) fails with
\* InvalidCapacity and produces no Producer and no Consumer, so no channel
\* over a ring of capacity 0 ever exists.  (For a positive capacity Create
\* is the state the claim describes: ring empty, flag alive, registrations
\* new.)
C17_CreateRejectsZero == cap # 0

\* C18: zero-length write.  In every state of the channel, a full ring and a
\* dropped Consumer included, a write of an empty slice is not refused,
\* returns Ok(0) and leaves the ring, the flag and both registrations as
\* they were.
C18_ZeroLengthWrite ==
    /\ [][WriteLoad(0) => (ppc' = "w_snap" /\ pbuf' = <<>>)]_vars
    /\ [][(WriteSnap /\ pbuf = <<>>) => UNCHANGED <<ring, cls, regp, regc>>]_vars
    /\ [][(WriteRing /\ pbuf = <<>>) =>
             /\ ppc' = "idle" /\ pres' = "Ok" /\ pnum' = 0
             /\ UNCHANGED <<ring, cls, regp, regc, wrote>>]_vars

\* C19: non-blocking.  Inside a write, read or drop the caller always has a
\* step it can take, whatever the peer has done; each step of the call brings
\* it nearer to its end (at most three steps after the first) and no step of
\* the peer moves it; so no caller stays inside a call for ever.  A write that
\* finds no free slot and a read that finds no byte while the Producer lives
\* return WouldBlock.
C19_NonBlocking ==
    /\ [](ProducerInCall => ENABLED ProducerCallStep)
    /\ [](ConsumerInCall => ENABLED ConsumerCallStep)
    /\ [][ProducerInCall => (ppc' = ppc \/ StepsLeft(ppc') < StepsLeft(ppc))]_vars
    /\ [][ConsumerInCall => (cpc' = cpc \/ StepsLeft(cpc') < StepsLeft(cpc))]_vars
    /\ [][ConsumerStep => ppc' = ppc]_vars
    /\ [][ProducerStep => cpc' = cpc]_vars
    /\ [][(WriteRing /\ Len(pbuf) > 0 /\ Len(ring) = cap) =>
             (ppc' = "idle" /\ pres' = "WouldBlock")]_vars
    /\ [][(ReadLoad /\ cls) => (cpc' = "idle" /\ cres' = "WouldBlock")]_vars
    /\ []<>~ProducerInCall
    /\ []<>~ConsumerInCall

\* C19 witness: a write that found the ring full has returned WouldBlock
\* while the Consumer, inside a read, had not taken its ring step.
C19_Witness ==
    /\ ppc = "idle" /\ pres = "WouldBlock"
    /\ IsFull(ring, cap)
    /\ cpc = "r_ring"
    /\ Len(cbuf) > 0

\* C20: the liveness flag is monotone.  It is true when the channel is made;
\* a step changes it only as the store of a drop (never a step of write or
\* read), and only from true to false; it never goes from false to true, so
\* over a run it changes value at most once, also when both halves are
\* dropped, and once either half has been dropped it is false.
C20_FlagMonotone ==
    /\ [][cls' # cls => (cls /\ ~cls' /\ (ProducerDropStore \/ ConsumerDropStore))]_vars
    /\ [][~cls => ~cls']_vars
    /\ []((ppc \in {"d_raise", "dropped"} \/ cpc \in {"d_raise", "dropped"}) <=> ~cls)

\* C20 witness: both halves have been dropped, so the flag was stored twice,
\* after bytes went through the channel.
C20_Witness ==
    /\ ppc = "dropped"
    /\ cpc = "dropped"
    /\ ~cls
    /\ Len(got) >= 1

\* C21: occupancy bound.  In every reachable state the ring holds between 0
\* and cap bytes; cap never changes after create; only the ring step of
\* Producer::write adds bytes to the ring and only the ring step of
\* Consumer::read takes bytes out of it.
C21_OccupancyBound ==
    /\ [](Len(ring) >= 0 /\ Len(ring) <= cap)
    /\ [][cap' = cap]_vars
    /\ [][Len(ring') > Len(ring) => WriteRing]_vars
    /\ [][Len(ring') < Len(ring) => ReadRing]_vars
    /\ [][ring' # ring => (WriteRing \/ ReadRing)]_vars

\* C21 witness: a ring of capacity 2 is full again after a byte has left it,
\* filled by a write that was accepted in part or whole.
C21_Witness ==
    /\ cap = 2
    /\ Len(ring) = cap
    /\ Len(got) >= 1
    /\ ppc = "idle" /\ pres = "Ok" /\ pnum >= 1
    /\ Len(wrote) = Len(got) + cap

\* C22: disposal is safe at any time.  A half that is outside a call can be
\* dropped in every reachable state, whatever step the peer is at and also
\* after the peer was dropped; no run reaches a panic, neither the unwrap in
\* a drop nor an unreachable!() arm of write or read; and a raise on a
\* registration that is already dropped changes nothing.
C22_DisposalSafe ==
    /\ [](ppc # "panic" /\ cpc # "panic")
    /\ [](ProducerFree => ENABLED ProducerDropStore)
    /\ [](ConsumerFree => ENABLED ConsumerDropStore)
    /\ [](ppc = "d_raise" => ENABLED ProducerDropRaise)
    /\ [](cpc = "d_raise" => ENABLED ConsumerDropRaise)
    /\ [][ProducerDropRaise => ppc' = "dropped"]_vars
    /\ [][ConsumerDropRaise => cpc' = "dropped"]_vars
    /\ [][((WriteRaise \/ ProducerDropRaise) /\ regc.dropped) => regc' = regc]_vars
    /\ [][((ReadRaise \/ ConsumerDropRaise) /\ regp.dropped) => regp' = regp]_vars

\* C22 witness: both halves have been dropped, one after the other, with a
\* written byte never read: the drop that came second raised a registration
\* that was already dropped, and nothing panicked.
C22_Witness ==
    /\ cpc = "dropped"
    /\ ppc = "dropped"
    /\ got = <<>>
    /\ cres = "None"
    /\ pres = "Ok" /\ pnum >= 1
    /\ Len(wrote) = pnum
    /\ regc.dropped /\ regp.dropped

C24_NoMutualDeadlock ==
    ~ ( /\ cap >= 1
        /\ ProducerAlive /\ ConsumerAlive
        /\ pres = "WouldBlock" /\ ppc = "wait" /\ regp.interest = Writable
        /\ cres = "WouldBlock" /\ cpc = "wait" /\ regc.interest = Readable
        /\ ~Pending(regp)
        /\ ~Pending(regc) )

\* C25: PeerClosed names the right peer.  A write returns BrokenPipe only if
\* the Consumer has been dropped (its store done), a read returns BrokenPipe
\* only if the Producer has been dropped; a half never loads the flag after
\* its own drop has stored it, since it makes no call once it is dropped.
C25_PeerClosedRightPeer ==
    /\ [](pres = "BrokenPipe" => cpc \in {"d_raise", "dropped"})
    /\ [](cres = "BrokenPipe" => ppc \in {"d_raise", "dropped"})
    /\ [][(\E n \in 0..MaxChunk : WriteLoad(n)) => ProducerAlive]_vars
    /\ [][ReadLoad => ConsumerAlive]_vars
    /\ [][pres' # pres => ProducerAlive']_vars
    /\ [][cres' # cres => ConsumerAlive']_vars

\* C25 witness: a write was refused with BrokenPipe while the Producer is
\* alive, and a read had returned bytes before the Consumer was dropped.
C25_Witness ==
    /\ pres = "BrokenPipe"
    /\ ppc = "idle"
    /\ cpc = "dropped"
    /\ cres = "Ok"
    /\ Len(got) >= 1

\* C26: a raise marks a genuine transition.  When the ring step of a write
\* goes on to raise, the ring was empty at that very step; when the ring step
\* of a read goes on to raise, the ring was full at that very step.  A
\* snapshot `empty` that is true stays true until the ring step (the Consumer
\* only removes bytes) and a snapshot `full` that is true stays true (the
\* Producer only adds bytes): a snapshot is stale only when it is false.
C26_RaiseIsGenuine ==
    /\ [][(WriteRing /\ ppc' = "w_raise") => (ring = <<>> /\ ring' # <<>>)]_vars
    /\ [][(ReadRing /\ cpc' = "r_raise") =>
             (Len(ring) = cap /\ Len(ring') < cap)]_vars
    /\ []((ppc = "w_ring" /\ pempty) => ring = <<>>)
    /\ []((cpc = "r_ring" /\ cfull) => Len(ring) = cap)

\* C26 witness: a write has just refilled a ring that was drained before
\* and is about to raise, while a read in flight holds a stale snapshot
\* full = false of the ring that is now full.
C26_Witness ==
    /\ ppc = "w_raise"
    /\ pnum >= 1
    /\ Len(ring) = pnum
    /\ Len(got) >= 1
    /\ cpc = "r_ring"
    /\ ~cfull
    /\ Len(ring) = cap

====
